---- MODULE Spec2Model ----
(***************************************************************************)
(* Model of the ping-pong Flask service (src/src/main.py).                 *)
(*                                                                         *)
(* One module-level configuration (PORT, HOST, DEBUG, APP_NAME), one Flask *)
(* application with five views (home, ping, iseven, hello, health) and the *)
(* framework's dispatch around them: URL matching (404 / 405), conversion  *)
(* of a view's return value into a response, and the handling of an        *)
(* exception that leaves a view.                                           *)
(*                                                                         *)
(* As stored, main.py does not compile: the `except` of iseven (line 53)   *)
(* is indented by ten spaces under a `try` indented by eight.  The model   *)
(* reads that clause as the handler of the try of line 45, which is the    *)
(* only try it can belong to.                                              *)
(*                                                                         *)
(* Strings are sequences of chunks: a request string is a sequence of      *)
(* one-character chunks, a literal of the source is one chunk.  Python's   *)
(* str + str is \o.                                                        *)
(***************************************************************************)
EXTENDS Integers, Sequences, FiniteSets, TLC

VARIABLES
    config,          \* module constants APP_NAME, HOST, PORT, DEBUG (main.py 18-21)
    TESTING,         \* app.config["TESTING"] (False by default, True in the test fixture)
    template_found,  \* whether html/index.html exists in the template folder
    clock,           \* the wall clock read by datetime.now(), in seconds
    request,         \* the request being answered (NoRequest before the first)
    response,        \* what the client got for it
    log,             \* the lines the logger received while answering it
    fresh            \* observer: the configuration of the start, and what the process
                     \* answered to each probe request had it come first

vars == <<config, TESTING, template_found, clock, request, response, log, fresh>>

(***************************************************************************)
(* Bounds of the model.                                                    *)
(***************************************************************************)
MaxClock == 1
MaxNum == 1
MaxPad == 1

(***************************************************************************)
(* JSON values, as json.loads hands them to Python.                        *)
(***************************************************************************)
NoFields == [k \in {} |-> 0]

JNull == [kind |-> "null", n |-> 0, s |-> <<>>, items |-> <<>>, fields |-> NoFields]
JBool(b) == [kind |-> "bool", n |-> IF b THEN 1 ELSE 0, s |-> <<>>, items |-> <<>>, fields |-> NoFields]
JNum(i) == [kind |-> "num", n |-> i, s |-> <<>>, items |-> <<>>, fields |-> NoFields]
JStr(t) == [kind |-> "str", n |-> 0, s |-> t, items |-> <<>>, fields |-> NoFields]
JList(xs) == [kind |-> "list", n |-> 0, s |-> <<>>, items |-> xs, fields |-> NoFields]
JObj(f) == [kind |-> "obj", n |-> 0, s |-> <<>>, items |-> <<>>, fields |-> f]

NameKey == <<"n", "a", "m", "e">>
NumberKey == <<"n", "u", "m", "b", "e", "r">>
OtherKey == <<"i", "n", "v", "a", "l", "i", "d">>

RECURSIVE Pad(_)
Pad(k) == IF k = 0 THEN <<>> ELSE <<"x">> \o Pad(k - 1)

\* Request strings: "", "nam" and "name", each with up to MaxPad characters before and after.
StrPool ==
    { Pad(p) \o core \o Pad(q) :
        p \in 0..MaxPad, q \in 0..MaxPad, core \in {<<>>, SubSeq(NameKey, 1, 3), NameKey} }

NumPool == (0 - MaxNum)..MaxNum

\* The values a JSON object or array of the model holds.
ValPool ==
    {JNull, JBool(TRUE), JBool(FALSE)} \cup {JNum(i) : i \in NumPool}
        \cup {JStr(<<>>), JStr(NameKey), JStr(<<"x">>)}

ScalarPool ==
    {JNull, JBool(TRUE), JBool(FALSE)} \cup {JNum(i) : i \in NumPool} \cup {JStr(t) : t \in StrPool}

\* Objects: the empty one, a name or a number with every value, another key alone,
\* and a name beside another key.
ObjPool ==
    {JObj(NoFields), JObj([k \in {OtherKey} |-> JStr(<<"x">>)])}
        \cup {JObj([k \in {key} |-> v]) : key \in {NameKey, NumberKey}, v \in ValPool}
        \cup {JObj([k \in {NameKey, OtherKey} |-> IF k = NameKey THEN v ELSE JStr(<<"x">>)]) :
                v \in {JNull, JStr(NameKey)}}

ListPool == {JList(<<>>)} \cup {JList(<<v>>) : v \in ValPool}

JsonPool == ScalarPool \cup ObjPool \cup ListPool


(***************************************************************************)
(* Python's operators on those values, as the views use them.  An          *)
(* operation that raises yields [ok |-> FALSE, exc |-> <exception class>]. *)
(***************************************************************************)
Ok(v) == [ok |-> TRUE, value |-> v, exc |-> ""]
Raise(e) == [ok |-> FALSE, value |-> JNull, exc |-> e]

\* bool(v): None, False, 0, "", [] and {} are false.
Truthy(v) ==
    CASE v.kind = "null" -> FALSE
      [] v.kind = "bool" -> v.n = 1
      [] v.kind = "num" -> v.n # 0
      [] v.kind = "str" -> v.s # <<>>
      [] v.kind = "list" -> v.items # <<>>
      [] v.kind = "obj" -> DOMAIN v.fields # {}

IsSubstring(sub, t) ==
    \E i \in 0..(Len(t) - Len(sub)) : SubSeq(t, i + 1, i + Len(sub)) = sub

\* key in v: a key of a dict, an element of a list, a substring of a str;
\* TypeError for None, a bool or a number.
Contains(key, v) ==
    CASE v.kind = "obj" -> Ok(JBool(key \in DOMAIN v.fields))
      [] v.kind = "list" -> Ok(JBool(\E i \in 1..Len(v.items) : v.items[i] = JStr(key)))
      [] v.kind = "str" -> Ok(JBool(IsSubstring(key, v.s)))
      [] OTHER -> Raise("TypeError")

\* v[key] for a str key: the value of a dict, KeyError when absent, TypeError elsewhere.
GetItem(v, key) ==
    IF v.kind = "obj"
    THEN IF key \in DOMAIN v.fields THEN Ok(v.fields[key]) ELSE Raise("KeyError")
    ELSE Raise("TypeError")

\* v % 2: the remainder for an int (a bool is an int); for a str, %-formatting,
\* which raises TypeError as no string of the pool holds a conversion; TypeError elsewhere.
Mod2(v) ==
    IF v.kind \in {"num", "bool"} THEN Ok(JNum(v.n % 2)) ELSE Raise("TypeError")

\* Mutant of Format: the value formatted with !r, a str in quotes.
Format_repr(v) ==
    CASE v.kind = "str" -> <<"'">> \o v.s \o <<"'">>
      [] v.kind = "null" -> <<"None">>
      [] v.kind = "bool" -> IF v.n = 1 THEN <<"True">> ELSE <<"False">>
      [] v.kind = "num" -> <<ToString(v.n)>>
      [] OTHER -> <<"<repr>">>

\* str(v), as an f-string formats a value.  Objects and arrays of the pool hold
\* scalars only, so the repr of a container is never formatted.
Format(v) ==
    CASE v.kind = "str" -> v.s
      [] v.kind = "null" -> <<"None">>
      [] v.kind = "bool" -> IF v.n = 1 THEN <<"True">> ELSE <<"False">>
      [] v.kind = "num" -> <<ToString(v.n)>>
      [] OTHER -> <<"<repr>">>

\* datetime.now().strftime("%Y-%m-%d %H:%M:%S UTC") at second t of the model's clock.
Strftime(t) == <<"1970-01-01 00:00:0" \o ToString(t) \o " UTC">>

(***************************************************************************)
(* Requests.                                                               *)
(***************************************************************************)
JsonType == "application/json"

NoBody == [form |-> "absent", value |-> JNull]
Malformed == [form |-> "malformed", value |-> JNull]
JsonBody(v) == [form |-> "json", value |-> v]

Paths == {"/", "/ping", "/iseven", "/hello", "/health", "/nonexistent"}
BodyPaths == {"/iseven", "/hello"}

Req(m, p, c, b) == [method |-> m, path |-> p, ctype |-> c, body |-> b]

Requests ==
    {Req("GET", p, "", NoBody) : p \in Paths}
        \cup {Req("POST", p, "", NoBody) : p \in Paths}
        \cup {Req("POST", p, JsonType, b) :
                p \in BodyPaths, b \in {NoBody, Malformed} \cup {JsonBody(v) : v \in JsonPool}}
        \cup {Req("POST", p, c, b) :
                p \in BodyPaths, c \in {"", "text/plain"},
                b \in {Malformed, JsonBody(JObj([k \in {NameKey} |-> JStr(NameKey)])),
                       JsonBody(JObj([k \in {NumberKey} |-> JNum(0)]))}}

NoRequest == Req("", "", "", NoBody)

\* Mutant of get_json: get_json(silent=True), None instead of an exception.
get_json_silent(req) ==
    IF req.ctype # JsonType \/ req.body.form # "json" THEN Ok(JNull) ELSE Ok(req.body.value)

\* request.get_json(): 415 UnsupportedMediaType unless the content type is JSON,
\* 400 BadRequest when the body does not parse; both are exceptions.
get_json(req) ==
    IF req.ctype # JsonType THEN Raise("UnsupportedMediaType")
    ELSE IF req.body.form # "json" THEN Raise("BadRequest")
    ELSE Ok(req.body.value)

(***************************************************************************)
(* What a view returns, and what it logs.                                  *)
(***************************************************************************)
EmptyBody == [k \in {} |-> <<>>]

\* jsonify(d), or the tuple (jsonify(d), status).
jsonify(d, status) == [kind |-> "json", status |-> status, body |-> d, exc |-> ""]
ReturnInt(n) == [kind |-> "int", status |-> n, body |-> EmptyBody, exc |-> ""]
ReturnText(t) == [kind |-> "text", status |-> 200, body |-> [k \in {"html"} |-> t], exc |-> ""]
Raised(e) == [kind |-> "raise", status |-> 0, body |-> EmptyBody, exc |-> e]

Info(msg) == [level |-> "INFO", msg |-> msg]
Error(msg) == [level |-> "ERROR", msg |-> msg]

Returns(rv, lines) == [rv |-> rv, log |-> lines]

except_Exception(e, first) ==
    Returns(jsonify([k \in {"error"} |-> <<"Internal server error">>], 500),
            <<first, Error(<<"Error processing hello request: ", e>>)>>)


(***************************************************************************)
(* The five views of create_app.                                           *)
(***************************************************************************)
\* render_template("index.html", ...): the page, or TemplateNotFound.
render_template(app_name, current_time) ==
    IF template_found
    THEN ReturnText(<<"index.html: ", app_name, " ">> \o current_time)
    ELSE Raised("TemplateNotFound")

home(req) ==
    Returns(render_template(config.APP_NAME, Strftime(clock)), <<Info(<<"Home page accessed">>)>>)

\* Mutant of ping: another message.
ping_capitalised(req) ==
    Returns(jsonify([k \in {"message"} |-> <<"Pong">>], 200), <<Info(<<"Ping endpoint accessed">>)>>)

\* Mutant of ping: the answer tells how many lines the previous request logged.
ping_counting(req) ==
    Returns(jsonify([k \in {"message"} |-> <<"pong", ToString(Len(log))>>], 200),
            <<Info(<<"Ping endpoint accessed">>)>>)

ping(req) ==
    Returns(jsonify([k \in {"message"} |-> <<"pong">>], 200), <<Info(<<"Ping endpoint accessed">>)>>)

iseven(req) ==
    LET accessed == Info(<<"Iseven endpoint accessed">>)
        data == get_json(req)
        number == IF data.ok THEN GetItem(data.value, NumberKey) ELSE data
        rem == IF number.ok THEN Mod2(number.value) ELSE number
    IN  IF ~rem.ok THEN except_Exception(rem.exc, accessed)
        ELSE IF rem.value.n = 0 THEN Returns(ReturnInt(200), <<accessed>>)
        ELSE Returns(ReturnInt(400), <<accessed>>)

MissingName == jsonify([k \in {"error"} |-> <<"Missing 'name' field in JSON payload">>], 400)

hello(req) ==
    LET accessed == Info(<<"Hello endpoint accessed">>)
        data == get_json(req)
    IN  IF ~data.ok THEN except_Exception(data.exc, accessed)
        ELSE IF ~Truthy(data.value) THEN Returns(MissingName, <<accessed>>)
        ELSE LET has == Contains(NameKey, data.value)
             IN  IF ~has.ok THEN except_Exception(has.exc, accessed)
                 ELSE IF has.value.n = 0 THEN Returns(MissingName, <<accessed>>)
                 ELSE LET name == GetItem(data.value, NameKey)
                      IN  IF ~name.ok THEN except_Exception(name.exc, accessed)
                          ELSE Returns(
                                 jsonify([k \in {"message"} |->
                                            <<"Hello ">> \o Format(name.value)
                                                \o <<", current time is ">> \o Strftime(clock)], 200),
                                 <<accessed,
                                   Info(<<"Hello response sent for name: ">> \o Format(name.value))>>)

\* Mutant of health: the default service name instead of the configured one.
health_default_name(req) ==
    Returns(jsonify([k \in {"status", "timestamp", "service", "version"} |->
                       CASE k = "status" -> <<"healthy">>
                         [] k = "timestamp" -> Strftime(clock)
                         [] k = "service" -> <<"ping-pong">>
                         [] k = "version" -> <<"1.0.0">>], 200),
            <<Info(<<"Health check endpoint accessed">>)>>)

health(req) ==
    Returns(jsonify([k \in {"status", "timestamp", "service", "version"} |->
                       CASE k = "status" -> <<"healthy">>
                         [] k = "timestamp" -> Strftime(clock)
                         [] k = "service" -> <<config.APP_NAME>>
                         [] k = "version" -> <<"1.0.0">>], 200),
            <<Info(<<"Health check endpoint accessed">>)>>)

(***************************************************************************)
(* Flask around the views: the URL map, the conversion of a return value   *)
(* into a response, and the exception that leaves a view.                  *)
(***************************************************************************)
Routes == {"/", "/ping", "/iseven", "/hello", "/health"}
RouteMethod(p) == IF p \in {"/iseven", "/hello"} THEN "POST" ELSE "GET"

View(req) ==
    CASE req.path = "/" -> home(req)
      [] req.path = "/ping" -> ping(req)
      [] req.path = "/iseven" -> iseven(req)
      [] req.path = "/hello" -> hello(req)
      [] req.path = "/health" -> health(req)

HtmlType == "text/html; charset=utf-8"

\* A response: status, content type, body; `by` tells whether the view's return
\* value or the framework's error handling produced it, `raised` the exception
\* that left the application instead of a response.
Resp(status, ctype, body) ==
    [status |-> status, ctype |-> ctype, body |-> body, by |-> "view", raised |-> ""]
HtmlPage(status, title) ==
    [status |-> status, ctype |-> HtmlType, body |-> [k \in {"html"} |-> <<title>>],
     by |-> "framework", raised |-> ""]

\* No error handler is registered: an HTTPException of the routing is answered
\* with Werkzeug's own HTML page.
NotFound == HtmlPage(404, "404 Not Found")
MethodNotAllowed == HtmlPage(405, "405 Method Not Allowed")

\* An exception no view caught: re-raised to the caller when exceptions
\* propagate (TESTING or DEBUG), else logged and answered with Werkzeug's 500 page.
handle_exception(exc, req, lines) ==
    IF TESTING \/ config.DEBUG
    THEN [resp |-> [status |-> 0, ctype |-> "", body |-> EmptyBody, by |-> "framework", raised |-> exc],
          log |-> lines]
    ELSE [resp |-> HtmlPage(500, "500 Internal Server Error"),
          log |-> Append(lines, Error(<<"Exception on ", req.path, " [", req.method, "]">>))]

\* make_response: a Response (with its status), a str as an HTML page; an int is
\* no valid return value and raises TypeError outside the view.
make_response(out, req) ==
    CASE out.rv.kind = "json" -> [resp |-> Resp(out.rv.status, JsonType, out.rv.body), log |-> out.log]
      [] out.rv.kind = "text" -> [resp |-> Resp(out.rv.status, HtmlType, out.rv.body), log |-> out.log]
      [] out.rv.kind = "int" -> handle_exception("TypeError", req, out.log)
      [] out.rv.kind = "raise" -> handle_exception(out.rv.exc, req, out.log)

\* Mutant of full_dispatch_request: the method is looked at before the path.
dispatch_method_first(req) ==
    IF req.method # RouteMethod(req.path) THEN [resp |-> MethodNotAllowed, log |-> <<>>]
    ELSE IF req.path \notin Routes THEN [resp |-> NotFound, log |-> <<>>]
    ELSE make_response(View(req), req)

full_dispatch_request(req) ==
    IF req.path \notin Routes THEN [resp |-> NotFound, log |-> <<>>]
    ELSE IF req.method # RouteMethod(req.path) THEN [resp |-> MethodNotAllowed, log |-> <<>>]
    ELSE make_response(View(req), req)

(***************************************************************************)
(* The process: configuration read once, then requests and the clock.      *)
(***************************************************************************)
DefaultConfig == [APP_NAME |-> "ping-pong", HOST |-> "0.0.0.0", PORT |-> 5000, DEBUG |-> FALSE]
Environments ==
    {DefaultConfig, [APP_NAME |-> "demo", HOST |-> "127.0.0.1", PORT |-> 8080, DEBUG |-> TRUE]}

(***************************************************************************)
(* Probe requests, one or more per route, for the observer `fresh`.        *)
(***************************************************************************)
ProbeRequests ==
    {Req("GET", p, "", NoBody) : p \in Paths}
        \cup {Req("POST", "/hello", JsonType, b) :
                b \in {NoBody, JsonBody(JObj(NoFields)), JsonBody(JObj([k \in {NameKey} |-> JStr(NameKey)]))}}
        \cup {Req("POST", "/iseven", JsonType, JsonBody(JObj([k \in {NumberKey} |-> JNum(n)]))) :
                n \in {0, 1}}

Stamps == {Strftime(t) : t \in 0..MaxClock}

Mask(text) == [i \in DOMAIN text |-> IF <<text[i]>> \in Stamps THEN "<timestamp>" ELSE text[i]]

\* A response with the timestamps of its body masked.
Masked(r) == [r EXCEPT !.body = [k \in DOMAIN r.body |-> Mask(r.body[k])]]

NoResponse == [status |-> 0, ctype |-> "", body |-> EmptyBody, by |-> "", raised |-> ""]

\* The ways the application is started: by the WSGI server or app.run with the
\* environment's configuration, and by the test fixture (TESTING set, no template
\* folder needed).
Deployments ==
    {[config |-> c, TESTING |-> FALSE, template_found |-> TRUE] : c \in Environments}
        \cup {[config |-> DefaultConfig, TESTING |-> t, template_found |-> FALSE] : t \in BOOLEAN}

Init ==
    /\ \E d \in Deployments :
          /\ config = d.config
          /\ TESTING = d.TESTING
          /\ template_found = d.template_found
    /\ clock = 0
    /\ request = NoRequest
    /\ response = NoResponse
    /\ log = <<>>
    /\ fresh = [config |-> config,
                answers |-> [p \in ProbeRequests |-> Masked(full_dispatch_request(p).resp)]]

Tick ==
    /\ clock < MaxClock
    /\ clock' = clock + 1
    /\ UNCHANGED <<config, TESTING, template_found, request, response, log, fresh>>

Serve ==
    \E req \in Requests :
        LET out == full_dispatch_request(req)
        IN  /\ request' = req
            /\ response' = out.resp
            /\ log' = out.log
            /\ UNCHANGED <<config, TESTING, template_found, clock, fresh>>

Next == Tick \/ Serve

Spec == Init /\ [][Next]_vars


(***************************************************************************)
(* Vocabulary of the properties.                                           *)
(***************************************************************************)
Served == request # NoRequest
IsPost(p) == request.method = "POST" /\ request.path = p
IsGet(p) == request.method = "GET" /\ request.path = p

\* The request reached a view: its path is routed and its method allowed.
Accepted == Served /\ request.path \in Routes /\ request.method = RouteMethod(request.path)

\* The body was sent as JSON and is well-formed JSON.
ParsesAsJson == request.ctype = JsonType /\ request.body.form = "json"

HasKey(v, key) == v.kind = "obj" /\ key \in DOMAIN v.fields

ErrorEnvelope(msg) == [k \in {"error"} |-> <<msg>>]
IsJsonError(r, status, msg) ==
    /\ r.status = status
    /\ r.ctype = JsonType
    /\ r.body = ErrorEnvelope(msg)
    /\ r.raised = ""

(***************************************************************************)
(* C1: every POST /hello whose body parses as JSON and has no `name` key   *)
(* (any JSON value, not only objects) is answered 400 with the body        *)
(* {"error": "Missing 'name' field in JSON payload"}.                      *)
(***************************************************************************)
C1_MissingNameIs400 ==
    (IsPost("/hello") /\ ParsesAsJson /\ ~HasKey(request.body.value, NameKey))
        => IsJsonError(response, 400, "Missing 'name' field in JSON payload")

(***************************************************************************)
(* C2: every POST /hello whose body is a JSON object with a `name` string  *)
(* is answered 200 with {"message": "Hello <name>, current time is <ts>"}, *)
(* <name> being the string of the request unchanged.                       *)
(***************************************************************************)
HasNameString ==
    /\ IsPost("/hello") /\ ParsesAsJson
    /\ HasKey(request.body.value, NameKey)
    /\ request.body.value.fields[NameKey].kind = "str"

C2_NameStringIsGreeted ==
    HasNameString =>
        /\ response.status = 200
        /\ response.ctype = JsonType
        /\ response.raised = ""
        /\ \E ts \in Stamps :
              response.body = [k \in {"message"} |->
                                 <<"Hello ">> \o request.body.value.fields[NameKey].s
                                     \o <<", current time is ">> \o ts]

C2_Witness ==
    /\ HasNameString
    /\ request.body.value.fields[NameKey].s = NameKey
    /\ response.status = 200
    /\ clock = MaxClock

(***************************************************************************)
(* C3: every POST /hello whose body cannot be parsed as JSON (content type *)
(* missing or not JSON, malformed or absent body) is answered 500 with     *)
(* {"error": "Internal server error"}.                                     *)
(***************************************************************************)
C3_UnparsableIs500 ==
    (IsPost("/hello") /\ ~ParsesAsJson) => IsJsonError(response, 500, "Internal server error")

C3_Witness ==
    /\ IsPost("/hello") /\ request.ctype = "" /\ request.body = NoBody
    /\ response.status = 500

(***************************************************************************)
(* C4: on every route, every error of a request is caught in the view and  *)
(* answered with a JSON envelope {"error": <message>}; none leaves the     *)
(* view.  (Stated with the template present: a failure of the renderer is  *)
(* not counted.)                                                           *)
(***************************************************************************)
C4_ErrorsAreEnveloped ==
    (Accepted /\ template_found) =>
        /\ response.raised = ""
        /\ response.by = "view"
        /\ response.status >= 400 =>
              (response.ctype = JsonType /\ DOMAIN response.body = {"error"})

(***************************************************************************)
(* C5: a request to a path that matches no route is answered 404 with a    *)
(* JSON error body.  As amended: it is answered 404 with the framework's   *)
(* own HTML page, by the framework, and no view runs.                      *)
(***************************************************************************)
C5_UnknownPathIsJson404 ==
    (Served /\ request.path \notin Routes) =>
        /\ response.status = 404
        /\ response.ctype = JsonType
        /\ "error" \in DOMAIN response.body

C5_UnknownPathIsHtml404 ==
    (Served /\ request.path \notin Routes) =>
        /\ response.status = 404
        /\ response.ctype = HtmlType
        /\ response.by = "framework"
        /\ response.raised = ""
        /\ log = <<>>

C5_Witness ==
    /\ request.path = "/nonexistent" /\ request.method = "POST"
    /\ response.status = 404

(***************************************************************************)
(* C6: GET /health is answered 200 with status "healthy", version "1.0.0", *)
(* the configured application name as service and a timestamp, in every    *)
(* reachable state.                                                        *)
(***************************************************************************)
C6_HealthAlwaysHealthy ==
    IsGet("/health") =>
        /\ response.status = 200
        /\ response.ctype = JsonType
        /\ response.raised = ""
        /\ DOMAIN response.body = {"status", "timestamp", "service", "version"}
        /\ response.body["status"] = <<"healthy">>
        /\ response.body["version"] = <<"1.0.0">>
        /\ response.body["service"] = <<config.APP_NAME>>
        /\ response.body["timestamp"] \in Stamps

C6_Witness ==
    /\ IsGet("/health")
    /\ config.APP_NAME = "demo"
    /\ response.body["timestamp"] = Strftime(MaxClock)

(***************************************************************************)
(* C7: GET /ping is answered 200 with exactly {"message": "pong"}, in      *)
(* every reachable state.                                                  *)
(***************************************************************************)
C7_PingAlwaysPong ==
    IsGet("/ping") =>
        /\ response.status = 200
        /\ response.ctype = JsonType
        /\ response.raised = ""
        /\ response.body = [k \in {"message"} |-> <<"pong">>]

C7_Witness ==
    /\ IsGet("/ping")
    /\ response.status = 200
    /\ clock = MaxClock
    /\ TESTING

(***************************************************************************)
(* C8: every view answers every request it accepts with a response of its  *)
(* own: a body, a status code and a content type; POST /iseven with        *)
(* {"number": n} does for even and odd n.                                  *)
(***************************************************************************)
C8_ViewsProduceResponses ==
    (Accepted /\ template_found) =>
        /\ response.by = "view"
        /\ response.raised = ""
        /\ response.status \in 100..599
        /\ response.ctype \in {JsonType, HtmlType}

(***************************************************************************)
(* C9: POST /hello answers 200 only to a body whose `name` is present and  *)
(* not null.                                                               *)
(***************************************************************************)
C9_GreetingNeedsNonNullName ==
    (IsPost("/hello") /\ response.status = 200) =>
        /\ ParsesAsJson
        /\ HasKey(request.body.value, NameKey)
        /\ request.body.value.fields[NameKey] # JNull

(***************************************************************************)
(* C10: in every reachable state, so after any sequence of requests, the   *)
(* configuration is the one of the start, and the response just given to a *)
(* probe request (status, content type, body up to the timestamp) is the   *)
(* one the freshly started process gives to that request: a response       *)
(* depends on the request and the configuration alone.                     *)
(***************************************************************************)
C10_AnswersIndependent ==
    /\ config = fresh.config
    /\ request \in ProbeRequests => Masked(response) = fresh.answers[request]

C10_Witness ==
    /\ request \in ProbeRequests
    /\ IsPost("/hello") /\ response.status = 200
    /\ clock = MaxClock
    /\ Len(log) = 2

====
